---------------------------- MODULE Spec2Model ----------------------------
(***************************************************************************)
(* Math-learning: the realtime classroom chat (Socket.IO handlers of       *)
(* server.js), the HTTP message route and the class file deposit routes    *)
(* (routes/classRoutes.js, server.js) over the Classroom documents of      *)
(* models/Classroom.js.                                                    *)
(*                                                                         *)
(* One action is one run-to-completion segment of a handler: the code      *)
(* between two awaits runs without interleaving (single-threaded event     *)
(* loop), and every await is a point where other handlers may run.         *)
(*                                                                         *)
(* Store semantics.  A handler loads a document with findById, pushes one  *)
(* subdocument onto an array of the loaded document and calls save().      *)
(* Mongoose validates the document against the schema, drops the fields    *)
(* the schema does not declare (strict mode) and sends the push to the     *)
(* store as an append of that one entry ($push) to the stored array; the   *)
(* stored array is not replaced by the loaded copy.                        *)
(***************************************************************************)
EXTENDS Integers, Sequences, FiniteSets, TLC

(***************************************************************************)
(* Bounds of the model.                                                    *)
(***************************************************************************)
\* chat submissions (realtime chatMessage events) in one behaviour
MaxSubs == 2

(***************************************************************************)
(* Values.                                                                 *)
(***************************************************************************)
\* JavaScript's undefined: a field the client left out
Absent == "undefined"

\* session identities (req.session.user / socket.request.session.user)
Users == {"u1", "u2"}
NoUser == "nouser"
Username(u) == IF u = "u1" THEN "alice" ELSE IF u = "u2" THEN "bob" ELSE Absent
Role(u) == IF u = "u1" THEN "teacher" ELSE IF u = "u2" THEN "student" ELSE Absent

\* realtime connections (sockets); the handshake of a connection carries
\* the session of its browser's user, or a session with no user
Conns == {"k1", "k2"}
Sessions(k) == {(IF k = "k1" THEN "u1" ELSE "u2"), NoUser}

\* the classroom ids a client may name; a classroom document exists for
\* "c1" and, depending on the initial state, for "c2"
RoomIds == {"c1", "c2"}

\* JavaScript truthiness of a string-or-undefined value
Truthy(v) == v # Absent /\ v # ""

\* a || b
OrElse(a, b) == IF Truthy(a) THEN a ELSE b

\* the payloads of a chatMessage event: {content, type, fileUrl}
Payloads ==
    { [content |-> "hi",   type |-> Absent,  fileUrl |-> Absent],
      [content |-> "hi",   type |-> "text",  fileUrl |-> Absent],
      [content |-> "x^2",  type |-> "math",  fileUrl |-> Absent],
      [content |-> Absent, type |-> "image", fileUrl |-> "url"],
      [content |-> Absent, type |-> "image", fileUrl |-> Absent],
      [content |-> Absent, type |-> "file",  fileUrl |-> "url"],
      [content |-> Absent, type |-> "file",  fileUrl |-> ""],
      [content |-> Absent, type |-> "video", fileUrl |-> "url"] }

\* the payloads of the concurrency specification
CorePayloads == {p \in Payloads : p.type = Absent}

VARIABLES
    store,      \* classroom id -> [messages, files]: the persisted documents
    status,     \* connection -> "new" | "open" | "closed"
    session,    \* connection -> the session user of its handshake (or NoUser)
    socket,     \* connection -> [userId, username, userRole, handlers]
    rooms,      \* connection -> the rooms it has joined
    received,   \* connection -> the events delivered to it, in order
    subs,       \* the chatMessage submissions, by submission number
    now,        \* the server clock (new Date()); 0 before the first reading
    deps,       \* the file deposit requests, by request number
    uploads,    \* the calls of the storage collaborator's upload, in order
    creates,    \* the class creation requests, by request number
    codeIndex,  \* the collection of classrooms has its unique index on classCode
    posts,      \* the POST /classes/:id/messages requests, by request number
    joins       \* connection -> the joinRoom events it was logged for (history)

vars == <<store, status, session, socket, rooms, received, subs, now,
          deps, uploads, creates, codeIndex, posts, joins>>

(***************************************************************************)
(* models/Classroom.js: messageSchema.                                     *)
(***************************************************************************)
\* messageSchema.type: enum
MessageTypes == {"text", "math", "image"}

\* the subdocument Mongoose builds from the pushed object: declared paths
\* only (sender, content, type, imageUrl, timestamp); fileUrl is no path of
\* the schema and is dropped.  sub is the submission number (history).
MessageCast(m) ==
    [sub |-> m.sub, sender |-> m.sender, content |-> m.content,
     type |-> m.type, imageUrl |-> Absent, timestamp |-> m.timestamp]

\* validation on save: sender required, type required and in the enum;
\* content and imageUrl are not required (timestamp is always set)
MessageValid(m) ==
    /\ m.sender # Absent
    /\ m.type \in MessageTypes

(***************************************************************************)
(* Socket.IO rooms.                                                        *)
(***************************************************************************)
\* mutant: socket.to(room).emit, which leaves the sender's socket out
EmitTo_ExceptSender(room, ev) ==
    [k \in Conns |-> IF room \in rooms[k] /\ socket[k].userId # ev.senderId
                     THEN Append(received[k], ev)
                     ELSE received[k]]

\* mutant: io.emit, which reaches every connected socket
EmitTo_Everyone(room, ev) ==
    [k \in Conns |-> IF status[k] = "open" THEN Append(received[k], ev)
                     ELSE received[k]]

\* mutant: the event is also sent back to the socket it came from
EmitTo_RoomAndSender(room, ev) ==
    [k \in Conns |-> IF room \in rooms[k] \/ k = subs[ev.sub].conn
                     THEN Append(received[k], ev)
                     ELSE received[k]]

\* io.to(room).emit('message', ev): every socket currently in the room
EmitTo(room, ev) ==
    [k \in Conns |-> IF room \in rooms[k] THEN Append(received[k], ev)
                     ELSE received[k]]

NoSocket == [userId |-> Absent, username |-> Absent, userRole |-> Absent,
             handlers |-> FALSE]

\* the classroom documents: u1 teaches both classrooms, u2 is a student of
\* c1 only; each has its join code
Classroom(c) ==
    [classCode |-> IF c = "c1" THEN "ALG1" ELSE "GEO2",
     teacher |-> "u1",
     students |-> IF c = "c1" THEN <<"u2">> ELSE << >>,
     messages |-> << >>, files |-> << >>]

Init ==
    /\ \E D \in {{"c1"}, {"c1", "c2"}} : store = [c \in D |-> Classroom(c)]
    /\ status = [k \in Conns |-> "new"]
    /\ session = [k \in Conns |-> NoUser]
    /\ socket = [k \in Conns |-> NoSocket]
    /\ rooms = [k \in Conns |-> {}]
    /\ received = [k \in Conns |-> << >>]
    /\ subs = << >>
    /\ now = 0
    /\ deps = << >>
    /\ uploads = << >>
    /\ creates = << >>
    /\ posts = << >>
    /\ joins = [k \in Conns |-> << >>]
    /\ codeIndex = TRUE

(***************************************************************************)
(* io.on('connection')                                                     *)
(***************************************************************************)
\* mutant: the handlers are registered whatever the session holds
OnConnection_NoCheck(k, u) ==
    /\ status[k] = "new"
    /\ session' = [session EXCEPT ![k] = u]
    /\ status' = [status EXCEPT ![k] = "open"]
    /\ socket' = [socket EXCEPT ![k] =
           [userId |-> IF u = NoUser THEN Absent ELSE u,
            username |-> Username(u),
            userRole |-> Role(u), handlers |-> TRUE]]
    /\ UNCHANGED <<store, rooms, received, subs, now, deps, uploads>>
    /\ UNCHANGED <<creates, codeIndex, posts, joins>>

OnConnection(k, u) ==
    /\ status[k] = "new"
    /\ session' = [session EXCEPT ![k] = u]
    /\ IF u = NoUser
       THEN \* return socket.disconnect(true): no handler is registered
            /\ status' = [status EXCEPT ![k] = "closed"]
            /\ UNCHANGED socket
       ELSE /\ status' = [status EXCEPT ![k] = "open"]
            /\ socket' = [socket EXCEPT ![k] =
                   [userId |-> u, username |-> Username(u),
                    userRole |-> Role(u), handlers |-> TRUE]]
    /\ UNCHANGED <<store, rooms, received, subs, now, deps, uploads>>
    /\ UNCHANGED <<creates, codeIndex, posts, joins>>

\* mutant: joining a room the socket is in takes it out again
Join_Toggles(rs, classroomId) ==
    IF classroomId \in rs THEN rs \ {classroomId} ELSE rs \cup {classroomId}

\* socket.join(classroomId): the room is added to the socket's set of rooms
Join(rs, classroomId) == rs \cup {classroomId}

\* socket.on('joinRoom'): the client's event reaches a handler only on a
\* connected socket that registered one
JoinRoom(k, classroomId) ==
    /\ status[k] # "new"
    /\ IF status[k] = "open" /\ socket[k].handlers
       THEN rooms' = [rooms EXCEPT ![k] = Join(@, classroomId)]
       ELSE UNCHANGED rooms
    /\ UNCHANGED <<store, status, session, socket, received, subs, now, deps, uploads>>
    /\ UNCHANGED <<creates, codeIndex, posts, joins>>

\* mutant: the closed socket stays in its rooms
Disconnect_KeepsRooms(k) ==
    /\ status[k] = "open"
    /\ status' = [status EXCEPT ![k] = "closed"]
    /\ UNCHANGED <<store, session, socket, rooms, received, subs, now, deps, uploads>>
    /\ UNCHANGED <<creates, codeIndex, posts, joins>>

\* socket.on('disconnect'): Socket.IO has removed the socket from its rooms
Disconnect(k) ==
    /\ status[k] = "open"
    /\ status' = [status EXCEPT ![k] = "closed"]
    /\ rooms' = [rooms EXCEPT ![k] = {}]
    /\ UNCHANGED <<store, session, socket, received, subs, now, deps, uploads>>
    /\ UNCHANGED <<creates, codeIndex, posts, joins>>

(***************************************************************************)
(* socket.on('chatMessage')                                                *)
(***************************************************************************)
\* mutant: the sender named by the payload is taken when there is one
ChatMessage_TrustsPayload(k, classroomId, p) ==
    /\ status[k] # "new"
    /\ Len(subs) < MaxSubs
    /\ IF status[k] = "open" /\ socket[k].handlers
       THEN LET senderId == OrElse(p.senderId, socket[k].userId)
                senderUsername == OrElse(p.senderUsername, socket[k].username)
            IN subs' = Append(subs,
                   [conn |-> k, senderId |-> senderId,
                    senderUsername |-> senderUsername,
                    classroomId |-> classroomId, content |-> p.content,
                    type |-> p.type, fileUrl |-> p.fileUrl,
                    timestamp |-> 0, loaded |-> 0,
                    pc |-> IF ~Truthy(senderId) \/ ~Truthy(senderUsername)
                           THEN "dropped" ELSE "findById"])
       ELSE UNCHANGED subs
    /\ UNCHANGED <<store, status, session, socket, rooms, received, now, deps, uploads>>
    /\ UNCHANGED <<creates, codeIndex, posts, joins>>

\* the handler up to its first await: Classroom.findById is in flight
ChatMessage(k, classroomId, p) ==
    /\ status[k] # "new"
    /\ Len(subs) < MaxSubs
    /\ IF status[k] = "open" /\ socket[k].handlers
       THEN LET senderId == socket[k].userId
                senderUsername == socket[k].username
            IN subs' = Append(subs,
                   [conn |-> k, senderId |-> senderId,
                    senderUsername |-> senderUsername,
                    classroomId |-> classroomId, content |-> p.content,
                    type |-> p.type, fileUrl |-> p.fileUrl,
                    timestamp |-> 0, loaded |-> 0,
                    pc |-> IF ~Truthy(senderId) \/ ~Truthy(senderUsername)
                           THEN "dropped" ELSE "findById"])
       ELSE UNCHANGED subs
    /\ UNCHANGED <<store, status, session, socket, rooms, received, now, deps, uploads>>
    /\ UNCHANGED <<creates, codeIndex, posts, joins>>

\* mutant: a message without type is taken for a formula
NewMessage_DefaultsToMath(s, i) ==
    [sub |-> i, sender |-> s.senderId, content |-> s.content,
     type |-> OrElse(s.type, "math"), fileUrl |-> s.fileUrl,
     timestamp |-> s.timestamp]

\* the object pushed onto classroom.messages
NewMessage(s, i) ==
    [sub |-> i, sender |-> s.senderId, content |-> s.content,
     type |-> OrElse(s.type, "text"), fileUrl |-> s.fileUrl,
     timestamp |-> s.timestamp]

\* mutant: the event carries the sender's id without the display name
MessageEvent_IdOnly(s, i) ==
    [sub |-> i, room |-> s.classroomId,
     senderId |-> s.senderId, senderUsername |-> Absent,
     content |-> s.content, type |-> OrElse(s.type, "text"),
     fileUrl |-> s.fileUrl, timestamp |-> s.timestamp]

\* the 'message' event of a submission; sub and room are history fields
MessageEvent(s, i) ==
    [sub |-> i, room |-> s.classroomId,
     senderId |-> s.senderId, senderUsername |-> s.senderUsername,
     content |-> s.content, type |-> OrElse(s.type, "text"),
     fileUrl |-> s.fileUrl, timestamp |-> s.timestamp]

\* mutant: the failure is reported to the sender's socket
ChatCatch_TellsSender(i) ==
    /\ subs' = [subs EXCEPT ![i].pc = "dropped", ![i].timestamp = 0]
    /\ received' = [received EXCEPT ![subs[i].conn] =
           Append(@, [sub |-> i, room |-> subs[i].classroomId,
                      type |-> "error"])]
    /\ UNCHANGED <<store, now>>

\* catch (error): the error is logged and the handler ends
ChatCatch(i) ==
    /\ subs' = [subs EXCEPT ![i].pc = "dropped", ![i].timestamp = 0]
    /\ UNCHANGED <<store, received, now>>

\* mutant: a missing classroom is answered with an event to the room
ChatNotFound_Emits(i) ==
    /\ subs[i].classroomId \notin DOMAIN store
    /\ subs' = [subs EXCEPT ![i].pc = "dropped"]
    /\ received' = EmitTo(subs[i].classroomId, MessageEvent(subs[i], i))
    /\ UNCHANGED <<store, now>>

\* if (!classroom) return: the error is logged and the handler ends
ChatNotFound(i) ==
    /\ subs[i].classroomId \notin DOMAIN store
    /\ subs' = [subs EXCEPT ![i].pc = "dropped"]
    /\ UNCHANGED <<store, received, now>>

\* mutant: the event is emitted when the message is pushed, before save()
ChatFound_EmitsBeforeSave(i, t) ==
    /\ subs[i].classroomId \in DOMAIN store
    /\ now' = t
    /\ subs' = [subs EXCEPT ![i].pc = "save", ![i].timestamp = t,
                            ![i].loaded = Len(store[subs[i].classroomId].messages)]
    /\ received' = EmitTo(subs[i].classroomId,
                          MessageEvent(subs'[i], i))
    /\ UNCHANGED store

\* mutant: after the push the handler waits for something that never comes
ChatFound_NeverSaves(i, t) ==
    /\ subs[i].classroomId \in DOMAIN store
    /\ now' = t
    /\ subs' = [subs EXCEPT ![i].pc = "waiting", ![i].timestamp = t,
                            ![i].loaded = Len(store[subs[i].classroomId].messages)]
    /\ UNCHANGED <<store, received>>

\* the classroom is found: newMessage is built with the clock's time and
\* pushed onto the loaded document (which has `loaded` messages), and save()
\* is in flight
ChatFound(i, t) ==
    /\ subs[i].classroomId \in DOMAIN store
    /\ now' = t
    /\ subs' = [subs EXCEPT ![i].pc = "save", ![i].timestamp = t,
                            ![i].loaded = Len(store[subs[i].classroomId].messages)]
    /\ UNCHANGED <<store, received>>

\* findById answers: the store fails (catch), there is no such classroom
\* (return), or the document is found
ChatFindById(i, t) ==
    /\ i \in DOMAIN subs
    /\ subs[i].pc = "findById"
    /\ \/ ChatCatch(i)
       \/ ChatNotFound(i)
       \/ ChatFound(i, t)
    /\ UNCHANGED <<status, session, socket, rooms, deps, uploads>>
    /\ UNCHANGED <<creates, codeIndex, posts, joins>>

\* mutant: save() writes the messages of the loaded document and the new one
SavedMessages_WholeDocument(messages, m) ==
    Append(SubSeq(messages, 1, subs[m.sub].loaded), MessageCast(m))

\* mutant: the new entry is put at the head of the stored array
SavedMessages_AtHead(messages, m) == <<MessageCast(m)>> \o messages

\* mutant: the save is repeated and appends the entry a second time
SavedMessages_Twice(messages, m) ==
    Append(Append(messages, MessageCast(m)), MessageCast(m))

\* what a successful save leaves in the stored message array
SavedMessages(messages, m) == Append(messages, MessageCast(m))

\* save() succeeds: the message is validated and appended to the stored
\* document, then the event is emitted to the room
ChatSaved(i) ==
    LET s == subs[i]
        m == NewMessage(s, i)
    IN /\ MessageValid(m)
       /\ s.classroomId \in DOMAIN store
       /\ store' = [store EXCEPT ![s.classroomId].messages =
                        SavedMessages(@, m)]
       /\ received' = EmitTo(s.classroomId, MessageEvent(s, i))
       /\ subs' = [subs EXCEPT ![i].pc = "emitted"]
       /\ UNCHANGED now

\* save() answers: validation or the store fails (catch), or it succeeds
ChatSave(i) ==
    /\ i \in DOMAIN subs
    /\ subs[i].pc = "save"
    /\ \/ ChatCatch(i)
       \/ ChatSaved(i)
    /\ UNCHANGED <<status, session, socket, rooms, deps, uploads>>
    /\ UNCHANGED <<creates, codeIndex, posts, joins>>

Next ==
    \/ \E k \in Conns : \E u \in Sessions(k) : OnConnection(k, u)
    \/ \E k \in Conns, r \in RoomIds : JoinRoom(k, r)
    \/ \E k \in Conns : Disconnect(k)
    \/ \E k \in Conns, r \in RoomIds, p \in CorePayloads : ChatMessage(k, r, p)
    \/ \E i \in 1..MaxSubs : ChatFindById(i, now + 1)
    \/ \E i \in 1..MaxSubs : ChatSave(i)

Spec == Init /\ [][Next]_vars

(***************************************************************************)
(* The payload specification: one connection and one room, every payload.  *)
(***************************************************************************)
NextPayload ==
    \/ \E u \in Sessions("k1") : OnConnection("k1", u)
    \/ JoinRoom("k1", "c1")
    \/ Disconnect("k1")
    \/ \E p \in Payloads : ChatMessage("k1", "c1", p)
    \/ \E i \in 1..MaxSubs : ChatFindById(i, now + 1)
    \/ \E i \in 1..MaxSubs : ChatSave(i)

SpecPayload == Init /\ [][NextPayload]_vars

\* a chatMessage event without a payload (or with null): the parameter
\* pattern { classroomId, content, type, fileUrl } cannot be bound, the
\* async handler throws a TypeError before its first statement, outside its
\* try block, and the promise it returns is rejected with nothing to handle
\* the rejection
ChatMessageNoPayload(k) ==
    /\ status[k] = "open" /\ socket[k].handlers
    /\ Len(subs) < MaxSubs
    /\ subs' = Append(subs,
           [conn |-> k, senderId |-> socket[k].userId,
            senderUsername |-> socket[k].username,
            classroomId |-> Absent, content |-> Absent,
            type |-> Absent, fileUrl |-> Absent,
            timestamp |-> 0, loaded |-> 0,
            pc |-> "unhandledRejection"])
    /\ UNCHANGED <<store, status, session, socket, rooms, received, now,
                   deps, uploads, creates, codeIndex, posts, joins>>

\* the payload specification with the events that carry no payload
NextAnyPayload ==
    \/ NextPayload
    \/ ChatMessageNoPayload("k1")

SpecAnyPayload == Init /\ [][NextAnyPayload]_vars

(***************************************************************************)
(* FILE DEPOSIT.  Character strings the code inspects (file names, MIME     *)
(* types, locators) are sequences of one-character strings, so that the     *)
(* tests the code makes on them (regular expression, extname, startsWith,   *)
(* endsWith, toLowerCase) are computed rather than assumed.  The sequence   *)
(* Undefined stands for a missing string.                                   *)
(***************************************************************************)
MaxDeps == 1

Undefined == <<Absent>>

TruthyStr(s) == s # Undefined /\ s # << >>

UpperCase == <<"A", "B", "C", "D", "E", "F", "G", "H", "I", "J", "K", "L", "M",
    "N", "O", "P", "Q", "R", "S", "T", "U", "V", "W", "X", "Y", "Z">>

LowerCase == <<"a", "b", "c", "d", "e", "f", "g", "h", "i", "j", "k", "l", "m",
    "n", "o", "p", "q", "r", "s", "t", "u", "v", "w", "x", "y", "z">>

\* String.prototype.toLowerCase
ToLowerCase(s) ==
    [n \in DOMAIN s |->
        IF \E a \in DOMAIN UpperCase : UpperCase[a] = s[n]
        THEN LowerCase[CHOOSE a \in DOMAIN UpperCase : UpperCase[a] = s[n]]
        ELSE s[n]]

\* String.prototype.includes, and RegExp.test for a pattern without anchors
Includes(s, t) ==
    \E n \in 0..(Len(s) - Len(t)) : SubSeq(s, n + 1, n + Len(t)) = t

\* String.prototype.startsWith
StartsWith(s, t) == Len(t) <= Len(s) /\ SubSeq(s, 1, Len(t)) = t

\* String.prototype.endsWith
EndsWith(s, t) ==
    Len(t) <= Len(s) /\ SubSeq(s, Len(s) - Len(t) + 1, Len(s)) = t

\* path.extname: from the last dot of the name to its end; empty when there
\* is no dot or when the only dot is the first character
ExtName(s) ==
    LET dots == {n \in DOMAIN s : s[n] = "."} IN
    IF dots = {} THEN << >>
    ELSE LET d == CHOOSE n \in dots : \A m \in dots : m <= n IN
         IF d = 1 THEN << >> ELSE SubSeq(s, d, Len(s))

\* path.parse(name).name: the name without its extension
BaseName(s) == SubSeq(s, 1, Len(s) - Len(ExtName(s)))

\* limits: { fileSize: 10 * 1024 * 1024 }
MaxFileSize == 10 * 1024 * 1024

\* the alternatives of /jpeg|jpg|png|gif|pdf|doc|docx/
allowedMimeTypes ==
    {<<"j", "p", "e", "g">>, <<"j", "p", "g">>, <<"p", "n", "g">>, <<"g", "i",
        "f">>, <<"p", "d", "f">>, <<"d", "o", "c">>, <<"d", "o", "c", "x">>}

AllowedTest(s) == \E t \in allowedMimeTypes : Includes(s, t)

\* the fileFilter callback of both multer instances: TRUE when it accepts
FileFilter(file) ==
    /\ AllowedTest(file.mimetype)
    /\ AllowedTest(ToLowerCase(ExtName(file.originalname)))

\* mutant: no size limit is configured
LimitFileSize_Unlimited(file) == FALSE

\* the size limit of both multer instances: TRUE when the upload is refused
\* with LIMIT_FILE_SIZE
LimitFileSize(file) == file.size > MaxFileSize

\* the request carries no file part
NoFile == [originalname |-> Undefined, mimetype |-> Undefined, size |-> 0]

MimePdf == <<"a", "p", "p", "l", "i", "c", "a", "t", "i", "o", "n", "/", "p",
    "d", "f">>

MimePng == <<"i", "m", "a", "g", "e", "/", "p", "n", "g">>

MimeOctet == <<"a", "p", "p", "l", "i", "c", "a", "t", "i", "o", "n", "/", "o",
    "c", "t", "e", "t", "-", "s", "t", "r", "e", "a", "m">>

MimeDocm ==
    <<"a", "p", "p", "l", "i", "c", "a", "t", "i", "o", "n", "/",
        "v", "n", "d", ".", "m", "s", "-", "w", "o", "r", "d", ".",
        "d", "o", "c", "u", "m", "e", "n", "t", ".", "m", "a", "c",
        "r", "o", "E", "n", "a", "b", "l", "e", "d", ".", "1", "2">>

DotPdf == <<".", "p", "d", "f">>

Files ==
    {[originalname |-> <<"a", ".", "p", "d", "f">>, mimetype |-> MimePdf,
        size |-> 2 * 1024 * 1024],
     [originalname |-> <<"a", ".", "p", "d", "f">>, mimetype |-> MimePdf,
         size |-> MaxFileSize],
     [originalname |-> <<"a", ".", "p", "d", "f">>, mimetype |-> MimePdf,
         size |-> MaxFileSize + 1],
     [originalname |-> <<"a", ".", "p", "d", "f">>, mimetype |-> MimePdf,
         size |-> 15 * 1024 * 1024],
     [originalname |-> <<"p", ".", "P", "N", "G">>, mimetype |-> MimePng,
         size |-> 1024 * 1024],
     [originalname |-> <<"x", ".", "e", "x", "e">>, mimetype |-> MimeOctet,
         size |-> 1024 * 1024],
     [originalname |-> <<"x", ".", "e", "x", "e">>, mimetype |-> MimeOctet,
         size |-> 15 * 1024 * 1024],
     [originalname |-> <<"m", ".", "d", "o", "c", "m">>, mimetype |-> MimeDocm,
         size |-> 1024 * 1024]}

SmallPdf == [originalname |-> <<"a", ".", "p", "d", "f">>,
    mimetype |-> MimePdf, size |-> 2 * 1024 * 1024]

BigPdf == [originalname |-> <<"a", ".", "p", "d", "f">>, mimetype |-> MimePdf,
    size |-> 15 * 1024 * 1024]

\* the deposit requests: who posts (session user), to which classroom, which
\* file part and which category field
DepositRequests ==
    [user : {"u2"}, classId : {"c1"}, file : Files \cup {NoFile},
     category : {"homework"}]
    \cup [user : {"u1", "u2", NoUser}, classId : RoomIds,
          file : {SmallPdf, BigPdf}, category : {"homework"}]
    \cup [user : {"u2"}, classId : {"c1"}, file : {SmallPdf, BigPdf},
          category : {"essay", "", Absent}]

\* the members of a stored classroom
Members(c) ==
    {store[c].teacher} \cup {store[c].students[n] : n \in DOMAIN store[c].students}

\* middleware/isAuthenticated: passes the request on when the session has a
\* user
IsAuthenticated(q) == q.user # NoUser

\* middleware/isClassMember: passes the request on when the session user is
\* the teacher or a student of the classroom.  For a classroom that is not
\* stored it may do either.
IsClassMember(q) ==
    q.classId \in DOMAIN store => q.user \in Members(q.classId)

IsClassMemberRefuses(q) ==
    q.classId \in DOMAIN store => q.user \notin Members(q.classId)

\* isLoggedIn
isLoggedIn(q) == q.user # NoUser

NoNewFile ==
    [fileName |-> Undefined, filePath |-> Undefined, fileSize |-> 0,
     fileMimeType |-> Undefined, uploadDate |-> 0, uploader |-> Absent,
     category |-> Absent, publicId |-> Undefined]

NoRes == [kind |-> "pending", to |-> Absent, error |-> Absent, message |-> Absent]

Redirect(to, error) ==
    [kind |-> "redirect", to |-> to, error |-> error, message |-> Absent]

\* what the caller receives for a response object.  res.redirect(to) sends
\* status 302 with the Location and nothing of res.locals, so the text put
\* in res.locals.error before a redirect does not leave the server; an
\* error passed to next(err) is answered by Express with status 500 and
\* the error.
Sent(res) ==
    IF res.kind = "redirect"
    THEN [status |-> 302, location |-> res.to, body |-> Absent]
    ELSE IF res.kind = "next(err)"
    THEN [status |-> 500, location |-> Absent, body |-> res.error]
    ELSE [status |-> 0, location |-> Absent, body |-> Absent]

\* a request as the server holds it: handler tells whether the route handler
\* has been entered
Request(route, q, pc, handler, res) ==
    [route |-> route, user |-> q.user, classId |-> q.classId, file |-> q.file,
     category |-> q.category, pc |-> pc, handler |-> handler,
     newFile |-> NoNewFile, res |-> res]

IdChars(c) == IF c = "c1" THEN <<"c", "1">> ELSE <<"c", "2">>

\* `class_files/${classId}`
FolderName(c) == <<"c", "l", "a", "s", "s", "_", "f", "i", "l", "e", "s",
    "/">> \o IdChars(c)

\* fileSchema.category enum, and allowedCategories of the router's route
FileCategories == {"exercise", "homework", "correction", "general"}

\* what Mongoose stores of a pushed file: the declared fields, with the
\* defaults of the schema; publicId is not declared and is left out
FileCast(i, f) ==
    [dep |-> i, fileName |-> f.fileName, filePath |-> f.filePath,
     fileSize |-> f.fileSize, fileMimeType |-> f.fileMimeType,
     uploadDate |-> f.uploadDate, uploader |-> f.uploader,
     category |-> IF f.category = Absent THEN "general" ELSE f.category,
     folder |-> "General"]

\* the validation of fileSchema
FileValid(f) ==
    /\ TruthyStr(f.fileName)
    /\ TruthyStr(f.filePath)
    /\ TruthyStr(f.fileMimeType)
    /\ f.uploader # Absent
    /\ f.category \in FileCategories

\* the outcomes of cloudinary.uploader.upload for a call: it throws, or it
\* returns a result whose secure_url may be missing and may or may not end
\* with the extension of a format
UploadResults(call) ==
    LET id == IF call.public_id = Undefined
              THEN call.folder \o <<"/", "r">> ELSE call.public_id
    IN  [secure_url : {Undefined, <<"/">> \o id, <<"/">> \o id \o DotPdf},
         public_id : {id},
         resource_type : IF call.resource_type = "auto" THEN {"image", "raw"}
                         ELSE {call.resource_type}]

\* the catch block of both routes: a redirect to the classroom page with the
\* message of the error
DepositCatch(i, message) ==
    /\ deps' = [deps EXCEPT ![i].pc = "done",
                            ![i].res = [kind |-> "redirect", to |-> "/classes/:id",
                                        error |-> "server error",
                                        message |-> message]]
    /\ UNCHANGED <<store, uploads, now>>

DepositRespond(i, res) ==
    /\ deps' = [deps EXCEPT ![i].pc = "done", ![i].res = res]
    /\ UNCHANGED <<store, uploads, now>>

\* ---- the route of routes/classRoutes.js --------------------------------

\* POST /classes/:id/files arrives at the router: isAuthenticated,
\* isClassMember and classFileUpload.single run before the handler, which
\* starts by loading the classroom
RouterDeposit(q) ==
    /\ Len(deps) < MaxDeps
    /\ \/ /\ ~IsAuthenticated(q)
          /\ deps' = Append(deps, Request("router", q, "done", FALSE,
                                  [NoRes EXCEPT !.kind = "refused"]))
       \/ /\ IsAuthenticated(q) /\ IsClassMemberRefuses(q)
          /\ deps' = Append(deps, Request("router", q, "done", FALSE,
                                  [NoRes EXCEPT !.kind = "refused"]))
       \/ /\ IsAuthenticated(q) /\ IsClassMember(q)
          /\ q.file # NoFile /\ ~FileFilter(q.file)
          /\ deps' = Append(deps, Request("router", q, "done", FALSE,
                                  [NoRes EXCEPT !.kind = "next(err)",
                                                !.error = "fileFilter"]))
       \/ /\ IsAuthenticated(q) /\ IsClassMember(q)
          /\ q.file # NoFile /\ FileFilter(q.file) /\ LimitFileSize(q.file)
          /\ deps' = Append(deps, Request("router", q, "done", FALSE,
                                  [NoRes EXCEPT !.kind = "next(err)",
                                                !.error = "LIMIT_FILE_SIZE"]))
       \/ /\ IsAuthenticated(q) /\ IsClassMember(q)
          /\ q.file # NoFile => FileFilter(q.file) /\ ~LimitFileSize(q.file)
          /\ deps' = Append(deps, Request("router", q, "findById", TRUE, NoRes))
    /\ UNCHANGED <<store, status, session, socket, rooms, received, subs, now,
                   uploads>>
    /\ UNCHANGED <<creates, codeIndex, posts, joins>>

\* Classroom.findById settles: the checks of the handler, then the call of
\* the storage collaborator
RouterFindById(i) ==
    /\ i \in DOMAIN deps
    /\ deps[i].route = "router" /\ deps[i].pc = "findById"
    /\ \/ DepositCatch(i, "store error")
       \/ /\ deps[i].classId \notin DOMAIN store
          /\ DepositRespond(i, Redirect("/classes/:id", "Classe introuvable."))
       \/ /\ deps[i].classId \in DOMAIN store
          /\ deps[i].file = NoFile
          /\ DepositRespond(i, Redirect("/classes/:id", "no file"))
       \/ /\ deps[i].classId \in DOMAIN store
          /\ deps[i].file # NoFile
          /\ ~Truthy(deps[i].category) \/ deps[i].category \notin FileCategories
          /\ DepositRespond(i, Redirect("/classes/:id", "invalid category"))
       \/ /\ deps[i].classId \in DOMAIN store
          /\ deps[i].file # NoFile
          /\ Truthy(deps[i].category) /\ deps[i].category \in FileCategories
          /\ uploads' = Append(uploads,
                 [dep |-> i, folder |-> FolderName(deps[i].classId),
                  public_id |-> Undefined, resource_type |-> "raw"])
          /\ deps' = [deps EXCEPT ![i].pc = "upload"]
          /\ UNCHANGED <<store, now>>
    /\ UNCHANGED <<status, session, socket, rooms, received, subs>>
    /\ UNCHANGED <<creates, codeIndex, posts, joins>>

\* the upload call of request i
UploadCall(i) == uploads[CHOOSE n \in DOMAIN uploads : uploads[n].dep = i]

\* the upload settles; t is the reading of the clock for uploadDate
RouterUploaded(i, t) ==
    /\ i \in DOMAIN deps
    /\ deps[i].route = "router" /\ deps[i].pc = "upload"
    /\ \/ DepositCatch(i, "provider error")
       \/ \E r \in UploadResults(UploadCall(i)) :
            \/ /\ ~TruthyStr(r.secure_url)
               /\ DepositRespond(i, Redirect("/classes/:id", "no locator"))
            \/ /\ TruthyStr(r.secure_url)
               /\ deps' = [deps EXCEPT
                     ![i].pc = "save",
                     ![i].newFile =
                        [fileName |-> deps[i].file.originalname,
                         filePath |-> r.secure_url,
                         fileSize |-> deps[i].file.size,
                         fileMimeType |-> deps[i].file.mimetype,
                         uploadDate |-> t,
                         uploader |-> deps[i].user,
                         category |-> deps[i].category,
                         publicId |-> r.public_id]]
               /\ now' = t
               /\ UNCHANGED <<store, uploads>>
    /\ UNCHANGED <<status, session, socket, rooms, received, subs>>
    /\ UNCHANGED <<creates, codeIndex, posts, joins>>

\* ---- the route of server.js --------------------------------------------

\* resource type and public id the handler asks for
AppUploadCall(i, q) ==
    LET name == FolderName(q.classId) \o <<"/">>
                   \o BaseName(q.file.originalname) \o <<"_", "t">>
        ext == ToLowerCase(ExtName(q.file.originalname))
    IN  IF StartsWith(q.file.mimetype, <<"i", "m", "a", "g", "e", "/">>)
        THEN [dep |-> i, folder |-> << >>, public_id |-> name,
              resource_type |-> "image"]
        ELSE IF \/ q.file.mimetype = MimePdf
                \/ Includes(q.file.mimetype, <<"a", "p", "p", "l", "i", "c",
                    "a", "t", "i", "o", "n", "/", "m", "s", "w", "o", "r",
                    "d">>)
                \/ Includes(q.file.mimetype, <<"a", "p", "p", "l", "i", "c",
                    "a", "t", "i", "o", "n", "/", "v", "n", "d", ".", "o", "p",
                    "e", "n", "x", "m", "l", "f", "o", "r", "m", "a", "t", "s",
                    "-", "o", "f", "f", "i", "c", "e", "d", "o", "c", "u", "m",
                    "e", "n", "t", ".", "w", "o", "r", "d", "p", "r", "o", "c",
                    "e", "s", "s", "i", "n", "g", "m", "l", ".", "d", "o", "c",
                    "u", "m", "e", "n", "t">>)
        THEN [dep |-> i, folder |-> << >>, public_id |-> name \o ext,
              resource_type |-> "raw"]
        ELSE [dep |-> i, folder |-> << >>, public_id |-> name \o ext,
              resource_type |-> "auto"]

\* POST /classes/:classId/files arrives at the application's own route:
\* isLoggedIn and upload.single run before the handler, which checks the
\* request and calls the storage collaborator before it loads the classroom
AppDeposit(q) ==
    /\ Len(deps) < MaxDeps
    /\ \/ /\ ~isLoggedIn(q)
          /\ deps' = Append(deps, Request("app", q, "done", FALSE,
                                  Redirect("/login", "Please log in")))
          /\ UNCHANGED uploads
       \/ /\ isLoggedIn(q)
          /\ q.file # NoFile /\ ~FileFilter(q.file)
          /\ deps' = Append(deps, Request("app", q, "done", FALSE,
                                  [NoRes EXCEPT !.kind = "next(err)",
                                                !.error = "fileFilter"]))
          /\ UNCHANGED uploads
       \/ /\ isLoggedIn(q)
          /\ q.file # NoFile /\ FileFilter(q.file) /\ LimitFileSize(q.file)
          /\ deps' = Append(deps, Request("app", q, "done", FALSE,
                                  [NoRes EXCEPT !.kind = "next(err)",
                                                !.error = "LIMIT_FILE_SIZE"]))
          /\ UNCHANGED uploads
       \/ /\ isLoggedIn(q)
          /\ q.file = NoFile
          /\ deps' = Append(deps, Request("app", q, "done", TRUE,
                                  Redirect("/classes/:id", "No file selected.")))
          /\ UNCHANGED uploads
       \/ /\ isLoggedIn(q)
          /\ q.file # NoFile /\ FileFilter(q.file) /\ ~LimitFileSize(q.file)
          /\ ~Truthy(q.category)
          /\ deps' = Append(deps, Request("app", q, "done", TRUE,
                                  Redirect("/classes/:id", "no category")))
          /\ UNCHANGED uploads
       \/ /\ isLoggedIn(q)
          /\ q.file # NoFile /\ FileFilter(q.file) /\ ~LimitFileSize(q.file)
          /\ Truthy(q.category)
          /\ deps' = Append(deps, Request("app", q, "upload", TRUE, NoRes))
          /\ uploads' = Append(uploads, AppUploadCall(Len(deps) + 1, q))
    /\ UNCHANGED <<store, status, session, socket, rooms, received, subs, now>>
    /\ UNCHANGED <<creates, codeIndex, posts, joins>>

\* the locator the handler keeps: the extension of the original name is
\* appended to the locator of a raw resource that does not end with it
ReconciledUrl(r, originalname) ==
    LET detectedExtension == ToLowerCase(ExtName(originalname)) IN
    IF /\ r.resource_type = "raw"
       /\ detectedExtension # << >>
       /\ ~EndsWith(ToLowerCase(r.secure_url), detectedExtension)
    THEN r.secure_url \o detectedExtension
    ELSE r.secure_url

\* the upload settles; t is the reading of the clock for uploadDate
AppUploaded(i, t) ==
    /\ i \in DOMAIN deps
    /\ deps[i].route = "app" /\ deps[i].pc = "upload"
    /\ \/ DepositCatch(i, "provider error")
       \/ \E r \in UploadResults(UploadCall(i)) :
            \/ \* fileUrl.toLowerCase() of an undefined fileUrl
               /\ r.secure_url = Undefined
               /\ r.resource_type = "raw"
               /\ ExtName(deps[i].file.originalname) # << >>
               /\ DepositCatch(i, "TypeError")
            \/ /\ ~(/\ r.secure_url = Undefined
                    /\ r.resource_type = "raw"
                    /\ ExtName(deps[i].file.originalname) # << >>)
               /\ deps' = [deps EXCEPT
                     ![i].pc = "findById",
                     ![i].newFile =
                        [fileName |-> deps[i].file.originalname,
                         filePath |->
                            IF r.secure_url = Undefined THEN Undefined
                            ELSE ReconciledUrl(r, deps[i].file.originalname),
                         fileSize |-> deps[i].file.size,
                         fileMimeType |-> deps[i].file.mimetype,
                         uploadDate |-> t,
                         uploader |-> deps[i].user,
                         category |-> deps[i].category,
                         publicId |-> r.public_id]]
               /\ now' = t
               /\ UNCHANGED <<store, uploads>>
    /\ UNCHANGED <<status, session, socket, rooms, received, subs>>
    /\ UNCHANGED <<creates, codeIndex, posts, joins>>

\* Classroom.findById settles
AppFindById(i) ==
    /\ i \in DOMAIN deps
    /\ deps[i].route = "app" /\ deps[i].pc = "findById"
    /\ \/ DepositCatch(i, "store error")
       \/ /\ deps[i].classId \notin DOMAIN store
          /\ DepositRespond(i, Redirect("/", "Classroom not found."))
       \/ /\ deps[i].classId \in DOMAIN store
          /\ deps' = [deps EXCEPT ![i].pc = "save"]
          /\ UNCHANGED <<store, uploads, now>>
    /\ UNCHANGED <<status, session, socket, rooms, received, subs>>
    /\ UNCHANGED <<creates, codeIndex, posts, joins>>

\* ---- both routes --------------------------------------------------------

SavedFiles(files, i, f) == Append(files, FileCast(i, f))

\* mutant: a saved deposit is announced to the room of the classroom
DepositSave_Announces(i) ==
    /\ i \in DOMAIN deps
    /\ deps[i].pc = "save"
    /\ FileValid(FileCast(i, deps[i].newFile))
    /\ deps[i].classId \in DOMAIN store
    /\ store' = [store EXCEPT ![deps[i].classId].files =
                    Append(@, FileCast(i, deps[i].newFile))]
    /\ deps' = [deps EXCEPT
          ![i].pc = "done",
          ![i].res = [kind |-> "redirect", to |-> "/classes/:id",
                      error |-> Absent, message |-> "success"]]
    /\ received' = EmitTo(deps[i].classId,
                      [sub |-> 0, room |-> deps[i].classId,
                       senderId |-> deps[i].user,
                       senderUsername |-> Username(deps[i].user),
                       content |-> "file", type |-> "file",
                       fileUrl |-> Absent, timestamp |-> now])
    /\ UNCHANGED <<uploads, now>>
    /\ UNCHANGED <<status, session, socket, rooms, subs>>
    /\ UNCHANGED <<creates, codeIndex, posts, joins>>

\* classroom.save() settles: the store fails, or the pushed file fails the
\* validation of the schema, or the file is appended to the stored sequence
DepositSave(i) ==
    /\ i \in DOMAIN deps
    /\ deps[i].pc = "save"
    /\ \/ DepositCatch(i, "store error")
       \/ /\ ~FileValid(FileCast(i, deps[i].newFile))
          /\ DepositCatch(i, "validation failed")
       \/ /\ FileValid(FileCast(i, deps[i].newFile))
          /\ deps[i].classId \in DOMAIN store
          /\ store' = [store EXCEPT ![deps[i].classId].files =
                          SavedFiles(@, i, deps[i].newFile)]
          /\ deps' = [deps EXCEPT
                ![i].pc = "done",
                ![i].res = [kind |-> "redirect", to |-> "/classes/:id",
                            error |-> Absent, message |-> "success"]]
          /\ UNCHANGED <<uploads, now>>
    /\ UNCHANGED <<status, session, socket, rooms, received, subs>>
    /\ UNCHANGED <<creates, codeIndex, posts, joins>>

NextDeposit ==
    \/ \E q \in DepositRequests : RouterDeposit(q)
    \/ \E q \in DepositRequests : AppDeposit(q)
    \/ \E i \in 1..MaxDeps : RouterFindById(i)
    \/ \E i \in 1..MaxDeps : RouterUploaded(i, now + 1)
    \/ \E i \in 1..MaxDeps : AppUploaded(i, now + 1)
    \/ \E i \in 1..MaxDeps : AppFindById(i)
    \/ \E i \in 1..MaxDeps : DepositSave(i)

SpecDeposit == Init /\ [][NextDeposit]_vars

(***************************************************************************)
(* GET /clear-db-dev-only                                                  *)
(***************************************************************************)
\* outside production the route drops the collections users, classrooms and
\* sessions, whoever asks; this is the step in which the collection of
\* classrooms goes, with every document in it and with its indexes
ClearDb ==
    /\ DOMAIN store # {}
    /\ store' = [c \in {} |-> Classroom(c)]
    /\ codeIndex' = FALSE
    /\ UNCHANGED <<status, session, socket, rooms, received, subs, now,
                   deps, uploads, creates, posts, joins>>

\* the deposit request of the maintenance specification
MemberRequest ==
    [user |-> "u2", classId |-> "c1", file |-> SmallPdf,
     category |-> "homework"]

\* the maintenance specification: one connection sending to one room, one
\* member depositing through the router, and the clearing route
NextClear ==
    \/ \E u \in Sessions("k1") : OnConnection("k1", u)
    \/ \E p \in CorePayloads : ChatMessage("k1", "c1", p)
    \/ \E i \in 1..MaxSubs : ChatFindById(i, now + 1)
    \/ \E i \in 1..MaxSubs : ChatSave(i)
    \/ RouterDeposit(MemberRequest)
    \/ \E i \in 1..MaxDeps : RouterFindById(i)
    \/ \E i \in 1..MaxDeps : RouterUploaded(i, now + 1)
    \/ \E i \in 1..MaxDeps : DepositSave(i)
    \/ ClearDb

SpecClear == Init /\ [][NextClear]_vars

(***************************************************************************)
(* POST /classes: the creation of a classroom.                             *)
(***************************************************************************)
MaxCreates == 2

\* the join codes of the creation requests: the code of classroom c1 and a
\* code no classroom has
ClassCodes == {"ALG1", "NEW3"}

\* the creation requests: the session user and body.classCode
CreateRequests == [user : Users \cup {NoUser}, classCode : ClassCodes]

\* the ids the store gives to the documents of the creation requests
NewIds == <<"n1", "n2", "n3">>

\* new Classroom({name, classCode, teacher: teacherId, students: [], ...})
NewClassroom(teacherId, classCode) ==
    [classCode |-> classCode, teacher |-> teacherId, students |-> << >>,
     messages |-> << >>, files |-> << >>]

\* a classroom with this join code is stored
CodeStored(classCode) ==
    \E c \in DOMAIN store : store[c].classCode = classCode

CreateRespond(i, res) ==
    /\ creates' = [creates EXCEPT ![i].pc = "done", ![i].res = res]
    /\ UNCHANGED store

\* mutant: the role of the session user is not looked at
CreateClass_AnyRole(q) ==
    /\ Len(creates) < MaxCreates
    /\ \/ /\ ~IsAuthenticated(q)
          /\ creates' = Append(creates, [user |-> q.user,
                 classCode |-> q.classCode, pc |-> "done", res |-> "refused"])
       \/ /\ IsAuthenticated(q)
          /\ creates' = Append(creates, [user |-> q.user,
                 classCode |-> q.classCode, pc |-> "findOne", res |-> "pending"])
    /\ UNCHANGED <<store, status, session, socket, rooms, received, subs, now,
                   deps, uploads, codeIndex, posts, joins>>

\* the request arrives: isAuthenticated, the check of the role, and the call
\* of Classroom.findOne({ classCode })
CreateClass(q) ==
    /\ Len(creates) < MaxCreates
    /\ \/ /\ ~IsAuthenticated(q)
          /\ creates' = Append(creates, [user |-> q.user,
                 classCode |-> q.classCode, pc |-> "done", res |-> "refused"])
       \/ /\ IsAuthenticated(q)
          /\ Role(q.user) # "teacher"
          /\ creates' = Append(creates, [user |-> q.user,
                 classCode |-> q.classCode, pc |-> "done", res |-> "forbidden"])
       \/ /\ IsAuthenticated(q)
          /\ Role(q.user) = "teacher"
          /\ creates' = Append(creates, [user |-> q.user,
                 classCode |-> q.classCode, pc |-> "findOne", res |-> "pending"])
    /\ UNCHANGED <<store, status, session, socket, rooms, received, subs, now,
                   deps, uploads, codeIndex, posts, joins>>

\* findOne settles: the store fails (catch), a classroom has the code, or
\* none has and the new document is built and its save is called
CreateFindOne(i) ==
    /\ i \in DOMAIN creates
    /\ creates[i].pc = "findOne"
    /\ \/ CreateRespond(i, "server error")
       \/ /\ CodeStored(creates[i].classCode)
          /\ CreateRespond(i, "code exists")
       \/ /\ ~CodeStored(creates[i].classCode)
          /\ creates' = [creates EXCEPT ![i].pc = "save"]
          /\ UNCHANGED store
    /\ UNCHANGED <<status, session, socket, rooms, received, subs, now,
                   deps, uploads, codeIndex, posts, joins>>

\* newClassroom.save() settles: the store fails, or the unique index on
\* classCode refuses a second document with the code (both go to the catch
\* block), or the document is inserted
CreateSave(i) ==
    /\ i \in DOMAIN creates
    /\ creates[i].pc = "save"
    /\ \/ CreateRespond(i, "server error")
       \/ /\ codeIndex /\ CodeStored(creates[i].classCode)
          /\ CreateRespond(i, "server error")
       \/ /\ ~(codeIndex /\ CodeStored(creates[i].classCode))
          /\ store' = [c \in DOMAIN store \cup {NewIds[i]} |->
                          IF c = NewIds[i]
                          THEN NewClassroom(creates[i].user, creates[i].classCode)
                          ELSE store[c]]
          /\ creates' = [creates EXCEPT ![i].pc = "updateUser"]
    /\ UNCHANGED <<status, session, socket, rooms, received, subs, now,
                   deps, uploads, codeIndex, posts, joins>>

\* User.findByIdAndUpdate settles: the redirect with the message of success,
\* or the catch block
CreateUserUpdated(i) ==
    /\ i \in DOMAIN creates
    /\ creates[i].pc = "updateUser"
    /\ \/ CreateRespond(i, "created")
       \/ CreateRespond(i, "server error")
    /\ UNCHANGED <<status, session, socket, rooms, received, subs, now,
                   deps, uploads, codeIndex, posts, joins>>

\* the creation of classrooms on a server whose store is never cleared
NextCreate ==
    \/ \E q \in CreateRequests : CreateClass(q)
    \/ \E i \in 1..MaxCreates : CreateFindOne(i)
    \/ \E i \in 1..MaxCreates : CreateSave(i)
    \/ \E i \in 1..MaxCreates : CreateUserUpdated(i)

SpecCreate == Init /\ [][NextCreate]_vars

\* the creation of classrooms with the clearing route
NextCreateClear ==
    \/ NextCreate
    \/ ClearDb

SpecCreateClear == Init /\ [][NextCreateClear]_vars

(***************************************************************************)
(* POST /classes/:id/messages: the HTTP path of a message.                 *)
(***************************************************************************)
MaxPosts == 2

\* the requests: the session user, req.params.id and req.body.content
PostRequests ==
    [user : Users \cup {NoUser}, classId : RoomIds, content : {"hi", Absent}]

\* the history number of the message of request i (the submissions of the
\* realtime path are numbered from 1 upward)
PostId(i) == 0 - i

\* newMessage of the route: the session user, the body's content, the type
\* 'text' and the clock's time
PostNewMessage(i) ==
    [sub |-> PostId(i), sender |-> posts[i].user, content |-> posts[i].content,
     type |-> "text", fileUrl |-> Absent, timestamp |-> posts[i].timestamp]

\* the 'message' event of the route, built from the saved and populated
\* subdocument: senderId, senderUsername, content, type, timestamp
PostEvent(i, savedMessage) ==
    [sub |-> savedMessage.sub, room |-> posts[i].classId,
     senderId |-> savedMessage.sender,
     senderUsername |-> Username(savedMessage.sender),
     content |-> savedMessage.content, type |-> savedMessage.type,
     fileUrl |-> Absent, timestamp |-> savedMessage.timestamp]

\* res.status(code).json(...)
PostRespond(i, code) ==
    /\ posts' = [posts EXCEPT ![i].pc = "done", ![i].status = code]
    /\ UNCHANGED <<store, received, now>>

\* catch (error): res.status(500).json(...)
PostCatch(i) == PostRespond(i, 500)

\* the request arrives: isAuthenticated and isClassMember run before the
\* handler, which starts by loading the classroom
PostMessage(q) ==
    /\ Len(posts) < MaxPosts
    /\ \/ /\ ~IsAuthenticated(q) \/ IsClassMemberRefuses(q)
          /\ posts' = Append(posts, [user |-> q.user, classId |-> q.classId,
                                     content |-> q.content, timestamp |-> 0,
                                     pc |-> "refused", status |-> 0])
       \/ /\ IsAuthenticated(q) /\ IsClassMember(q)
          /\ posts' = Append(posts, [user |-> q.user, classId |-> q.classId,
                                     content |-> q.content, timestamp |-> 0,
                                     pc |-> "findById", status |-> 0])
    /\ UNCHANGED <<store, status, session, socket, rooms, received, subs, now,
                   deps, uploads, creates, codeIndex, joins>>

\* findById answers: the store fails (catch), there is no such classroom
\* (404), or the document is found, newMessage is pushed and save() is in
\* flight
PostFindById(i, t) ==
    /\ i \in DOMAIN posts
    /\ posts[i].pc = "findById"
    /\ \/ PostCatch(i)
       \/ /\ posts[i].classId \notin DOMAIN store
          /\ PostRespond(i, 404)
       \/ /\ posts[i].classId \in DOMAIN store
          /\ now' = t
          /\ posts' = [posts EXCEPT ![i].pc = "save", ![i].timestamp = t]
          /\ UNCHANGED <<store, received>>
    /\ UNCHANGED <<status, session, socket, rooms, subs, deps, uploads,
                   creates, codeIndex, joins>>

\* save() answers: validation or the store fails (catch), or the message is
\* appended and User.populate(savedMessage) is in flight
PostSave(i) ==
    /\ i \in DOMAIN posts
    /\ posts[i].pc = "save"
    /\ \/ PostCatch(i)
       \/ /\ MessageValid(PostNewMessage(i))
          /\ posts[i].classId \in DOMAIN store
          /\ store' = [store EXCEPT ![posts[i].classId].messages =
                           SavedMessages(@, PostNewMessage(i))]
          /\ posts' = [posts EXCEPT ![i].pc = "populate"]
          /\ UNCHANGED <<received, now>>
    /\ UNCHANGED <<status, session, socket, rooms, subs, deps, uploads,
                   creates, codeIndex, joins>>

\* mutant: the event goes out although populate failed
PostPopulated_EmitsOnFailure(i) ==
    /\ i \in DOMAIN posts
    /\ posts[i].pc = "populate"
    /\ received' = EmitTo(posts[i].classId,
                          PostEvent(i, MessageCast(PostNewMessage(i))))
    /\ \/ posts' = [posts EXCEPT ![i].pc = "done", ![i].status = 500]
       \/ posts' = [posts EXCEPT ![i].pc = "done", ![i].status = 201]
    /\ UNCHANGED <<store, now>>
    /\ UNCHANGED <<status, session, socket, rooms, subs, deps, uploads,
                   creates, codeIndex, joins>>

\* User.populate answers: it fails, or leaves sender null so that
\* savedMessage.sender._id throws (catch: 500, the message stays stored);
\* or the event is emitted to the room (req.app.get('io') is set at start)
\* and 201 is answered
PostPopulated(i) ==
    /\ i \in DOMAIN posts
    /\ posts[i].pc = "populate"
    /\ \/ PostCatch(i)
       \/ /\ received' = EmitTo(posts[i].classId,
                                PostEvent(i, MessageCast(PostNewMessage(i))))
          /\ posts' = [posts EXCEPT ![i].pc = "done", ![i].status = 201]
          /\ UNCHANGED <<store, now>>
    /\ UNCHANGED <<status, session, socket, rooms, subs, deps, uploads,
                   creates, codeIndex, joins>>

NextHttp ==
    \/ \E u \in Sessions("k1") : OnConnection("k1", u)
    \/ \E r \in RoomIds : JoinRoom("k1", r)
    \/ \E q \in PostRequests : PostMessage(q)
    \/ \E i \in 1..MaxPosts : PostFindById(i, now + 1)
    \/ \E i \in 1..MaxPosts : PostSave(i)
    \/ \E i \in 1..MaxPosts : PostPopulated(i)

SpecHttp == Init /\ [][NextHttp]_vars

(***************************************************************************)
(* The join specification: the joinRoom events a connection's handler ran  *)
(* for are logged, each with the number of events received before it.      *)
(***************************************************************************)
MaxJoins == 2

\* mutant: the room is joined by members of a stored classroom only
JoinRoomLogged_MembersOnly(k, classroomId) ==
    /\ status[k] = "open" /\ socket[k].handlers
    /\ Len(joins[k]) < MaxJoins
    /\ rooms' = [rooms EXCEPT ![k] =
                    IF /\ classroomId \in DOMAIN store
                       /\ socket[k].userId \in Members(classroomId)
                    THEN Join(@, classroomId) ELSE @]
    /\ joins' = [joins EXCEPT ![k] =
                    Append(@, [room |-> classroomId, seen |-> Len(received[k])])]
    /\ UNCHANGED <<store, status, session, socket, received, subs, now,
                   deps, uploads, creates, codeIndex, posts>>

\* socket.on('joinRoom') on a connected socket, with the log entry
JoinRoomLogged(k, classroomId) ==
    /\ status[k] = "open" /\ socket[k].handlers
    /\ Len(joins[k]) < MaxJoins
    /\ rooms' = [rooms EXCEPT ![k] = Join(@, classroomId)]
    /\ joins' = [joins EXCEPT ![k] =
                    Append(@, [room |-> classroomId, seen |-> Len(received[k])])]
    /\ UNCHANGED <<store, status, session, socket, received, subs, now,
                   deps, uploads, creates, codeIndex, posts>>

NextJoin ==
    \/ \E u \in Sessions("k2") : OnConnection("k2", u)
    \/ \E r \in RoomIds : JoinRoomLogged("k2", r)
    \/ \E r \in RoomIds, p \in CorePayloads : ChatMessage("k2", r, p)
    \/ \E i \in 1..MaxSubs : ChatFindById(i, now + 1)
    \/ \E i \in 1..MaxSubs : ChatSave(i)

SpecJoin == Init /\ [][NextJoin]_vars

(***************************************************************************)
(* The shared classroom: one connection in the room of classroom c1, one   *)
(* chat message, and the deposits of a member into the same classroom.     *)
(***************************************************************************)
\* the deposits of member u2 into c1: a small file of allowed type, with a
\* category of the schema and with one that is not
ShareRequests ==
    {q \in DepositRequests :
        /\ q.user = "u2" /\ q.classId = "c1" /\ q.file = SmallPdf
        /\ q.category \in {"homework", "essay"}}

NextShare ==
    \/ \E u \in Sessions("k1") : OnConnection("k1", u)
    \/ JoinRoom("k1", "c1")
    \/ \E p \in CorePayloads : subs = << >> /\ ChatMessage("k1", "c1", p)
    \/ ChatFindById(1, now + 1)
    \/ ChatSave(1)
    \/ \E q \in ShareRequests : RouterDeposit(q)
    \/ \E q \in ShareRequests : AppDeposit(q)
    \/ \E i \in 1..MaxDeps : RouterFindById(i)
    \/ \E i \in 1..MaxDeps : RouterUploaded(i, now + 1)
    \/ \E i \in 1..MaxDeps : AppUploaded(i, now + 1)
    \/ \E i \in 1..MaxDeps : AppFindById(i)
    \/ \E i \in 1..MaxDeps : DepositSave(i)

SpecShare == Init /\ [][NextShare]_vars

(***************************************************************************)
(* The identity specification: payloads that name a sender of their own.   *)
(***************************************************************************)
\* chatMessage payloads with the extra fields senderId and senderUsername,
\* which the handler's parameter does not destructure
ForgedPayloads ==
    {[content |-> "hi", type |-> Absent, fileUrl |-> Absent,
      senderId |-> u, senderUsername |-> Username(u)] :
        u \in Users \cup {Absent}}

NextIdentity ==
    \/ \E k \in Conns : \E u \in Sessions(k) : OnConnection(k, u)
    \/ \E k \in Conns : JoinRoom(k, "c1")
    \/ \E k \in Conns : Disconnect(k)
    \/ \E k \in Conns, p \in ForgedPayloads : ChatMessage(k, "c1", p)
    \/ \E i \in 1..MaxSubs : ChatFindById(i, now + 1)
    \/ \E i \in 1..MaxSubs : ChatSave(i)

SpecIdentity == Init /\ [][NextIdentity]_vars

(***************************************************************************)
(* The liveness specification: one connection, and a store that answers    *)
(* every findById and every save that is in flight.                        *)
(***************************************************************************)
NextLive ==
    \/ \E u \in Sessions("k1") : OnConnection("k1", u)
    \/ \E r \in RoomIds : JoinRoom("k1", r)
    \/ \E r \in RoomIds, p \in CorePayloads : ChatMessage("k1", r, p)
    \/ \E i \in 1..MaxSubs : ChatFindById(i, now + 1)
    \/ \E i \in 1..MaxSubs : ChatSave(i)

\* the store eventually answers each load and each save
StoreAnswers ==
    \A i \in 1..MaxSubs :
        /\ WF_vars(ChatFindById(i, now + 1))
        /\ WF_vars(ChatSave(i))

SpecLive == Init /\ [][NextLive]_vars /\ StoreAnswers

(***************************************************************************)
(* The rejected handler.  Nothing handles the rejection of the promise of  *)
(* a chatMessage handler that threw on its payload; the runtime either     *)
(* only warns (the submission stays as it is) or ends the process.         *)
(***************************************************************************)
\* the process ends on the unhandled rejection: every connection is closed
\* and the handlers that were waiting for the store never continue
ProcessExit ==
    /\ \E i \in DOMAIN subs : subs[i].pc = "unhandledRejection"
    /\ \E k \in Conns : status[k] = "open"
    /\ status' = [k \in Conns |-> IF status[k] = "open" THEN "closed"
                                  ELSE status[k]]
    /\ rooms' = [k \in Conns |-> {}]
    /\ subs' = [i \in DOMAIN subs |->
                   IF subs[i].pc \in {"findById", "save"}
                   THEN [subs[i] EXCEPT !.pc = "lost"] ELSE subs[i]]
    /\ UNCHANGED <<store, session, socket, received, now, deps, uploads,
                   creates, codeIndex, posts, joins>>

NextAnyLive ==
    \/ NextLive
    \/ ChatMessageNoPayload("k1")
    \/ ProcessExit

SpecAnyLive == Init /\ [][NextAnyLive]_vars /\ StoreAnswers

(***************************************************************************)
(* Properties.                                                             *)
(***************************************************************************)
\* the events delivered to connection k
Events(k) == {received[k][j] : j \in DOMAIN received[k]}

\* submission i has an entry in the stored messages of classroom c
PersistedIn(c, i) ==
    /\ c \in DOMAIN store
    /\ \E n \in DOMAIN store[c].messages : store[c].messages[n].sub = i

Persisted(i) == \E c \in DOMAIN store : PersistedIn(c, i)

\* some connection was sent an event for submission i
Delivered(i) == \E k \in Conns : \E e \in Events(k) : e.sub = i

\* the position of submission i in the stored messages of classroom c
StoredAt(c, i) ==
    CHOOSE n \in DOMAIN store[c].messages : store[c].messages[n].sub = i

\* C1: every 'message' event a connection has received belongs to a
\* submission whose message is in the stored document of the addressed
\* classroom (its save succeeded); a submission that is still waiting for
\* the store, or was dropped, has reached no connection.
C1_BroadcastOnlyAfterSave ==
    \A k \in Conns : \A e \in Events(k) :
        /\ e.sub \in DOMAIN subs
        /\ subs[e.sub].pc = "emitted"
        /\ PersistedIn(subs[e.sub].classroomId, e.sub)

\* a connection has received the event of a saved submission
C1_Witness ==
    \E k \in Conns : \E e \in Events(k) :
        /\ subs[e.sub].pc = "emitted"
        /\ PersistedIn(subs[e.sub].classroomId, e.sub)

C3_DeliveredToEveryMember ==
    [][\A i \in DOMAIN subs :
          (subs[i].pc = "save" /\ subs'[i].pc = "emitted")
          => \A k \in Conns :
                subs[i].classroomId \in rooms[k]
                => received'[k] =
                       Append(received[k], MessageEvent(subs[i], i))]_vars

\* a sender that is in the room has received its own message, and so has
\* the other connection
C3_Witness ==
    \E i \in DOMAIN subs : \A k \in Conns :
        /\ subs[i].pc = "emitted"
        /\ subs[i].classroomId \in rooms[k]
        /\ \E e \in Events(k) : e.sub = i

C5_NoIdentityNoProcessing ==
    \A k \in Conns :
        (status[k] # "new" /\ session[k] = NoUser)
        => /\ status[k] = "closed"
           /\ ~socket[k].handlers
           /\ rooms[k] = {}
           /\ received[k] = << >>
           /\ \A i \in DOMAIN subs : subs[i].conn # k

\* a connection without a user was closed, and the other connection's
\* message was broadcast
C5_Witness ==
    \E k \in Conns :
        /\ status[k] = "closed"
        /\ session[k] = NoUser
        /\ \E i \in DOMAIN subs : subs[i].pc = "emitted" /\ Delivered(i)

\* C8: a chatMessage addressed to an id with no classroom document is
\* dropped at the lookup: it never reaches save, nothing is stored for it,
\* and no connection, the sender included, is sent anything for it.
C8_UnknownClassroomDropped ==
    \A i \in DOMAIN subs :
        subs[i].classroomId \notin DOMAIN store
        => /\ subs[i].pc \in {"findById", "dropped"}
           /\ ~Persisted(i)
           /\ ~Delivered(i)

\* a chatMessage to a missing classroom was dropped while its sender was in
\* the room of that id
C8_Witness ==
    \E i \in DOMAIN subs :
        /\ subs[i].classroomId \notin DOMAIN store
        /\ subs[i].pc = "dropped"
        /\ subs[i].classroomId \in rooms[subs[i].conn]

\* C9: the step in which the lookup or the save of a chatMessage fails
\* changes neither the store nor what any connection has received, and the
\* submission stays dropped: it is not retried, nothing is stored for it
\* and no event is ever sent for it.
C9_FailureDropsEvent ==
    [][\A i \in DOMAIN subs :
          /\ (subs[i].pc \in {"findById", "save"} /\ subs'[i].pc = "dropped")
             => (store' = store /\ received' = received)
          /\ subs[i].pc = "dropped"
             => (subs'[i].pc = "dropped" /\ ~Persisted(i)' /\ ~Delivered(i)')
      ]_vars

\* a submission to an existing classroom was dropped while its sender was
\* in the room
C9_Witness ==
    \E i \in DOMAIN subs :
        /\ subs[i].classroomId \in DOMAIN store
        /\ subs[i].pc = "dropped"
        /\ subs[i].classroomId \in rooms[subs[i].conn]

\* C6: a chatMessage of type image or file whose attachment URL is missing
\* or empty is never stored and never broadcast.
C6_AttachmentNeedsUrl ==
    \A i \in DOMAIN subs :
        (subs[i].type \in {"image", "file"} /\ ~Truthy(subs[i].fileUrl))
        => (~Persisted(i) /\ ~Delivered(i))

\* the types the protocol names for a chatMessage
ProtocolTypes == {"text", "math", "image", "file"}

\* the fields the protocol asks of a chatMessage of type ty: content for
\* text and math, a non-empty attachment URL for image and file
ValidFields(s, ty) ==
    IF ty \in {"image", "file"} THEN Truthy(s.fileUrl) ELSE Truthy(s.content)

\* C7: a chatMessage waiting for its save passes the store's validation
\* when its type (text when omitted) is text, math, image or file and its
\* fields are valid, and fails it when its type is none of the four.
C7_ProtocolTypesAccepted ==
    \A i \in DOMAIN subs :
        subs[i].pc = "save"
        => LET ty == OrElse(subs[i].type, "text")
               ok == MessageValid(NewMessage(subs[i], i))
           IN /\ (ty \in ProtocolTypes /\ ValidFields(subs[i], ty)) => ok
              /\ ty \notin ProtocolTypes => ~ok


\* the deposits whose file part is larger than the limit of 10 MiB
Oversized(i) == deps[i].file # NoFile /\ deps[i].file.size > MaxFileSize

C11_InvalidCategoryNoPartialState ==
    \A i \in DOMAIN deps :
        deps[i].category \notin FileCategories =>
            /\ \A n \in DOMAIN uploads : uploads[n].dep # i
            /\ \A c \in DOMAIN store :
                  \A n \in DOMAIN store[c].files : store[c].files[n].dep # i

\* C12: when the storage collaborator's upload throws during a file deposit,
\* no file of the deposit is in the file sequence of any classroom and the
\* caller receives an outcome that carries the provider's error message.
C12_UploadFailureSurfaced ==
    \A i \in DOMAIN deps :
        deps[i].res.message = "provider error" =>
            /\ \A c \in DOMAIN store :
                  \A n \in DOMAIN store[c].files : store[c].files[n].dep # i
            /\ Sent(deps[i].res).body = "provider error"

\* the extensions of the binary documents
DocumentExtensions ==
    {<<".", "p", "d", "f">>, <<".", "d", "o", "c">>,
     <<".", "d", "o", "c", "x">>}

\* C13: for every deposited binary document (pdf, doc, docx), whatever
\* locator the storage collaborator returned, the locator stored in the file
\* entry ends with the lower-cased extension of the original file name.
C13_StoredLocatorKeepsExtension ==
    \A c \in DOMAIN store :
        \A n \in DOMAIN store[c].files :
            LET f == store[c].files[n]
                ext == ToLowerCase(ExtName(f.fileName))
            IN  ext \in DocumentExtensions => EndsWith(f.filePath, ext)

\* the extensions and the MIME types of the allowed set: jpeg/jpg, png, gif,
\* pdf, doc, docx
AllowedExtensions ==
    {<<".", "j", "p", "e", "g">>, <<".", "j", "p", "g">>, <<".", "p", "n", "g">>, <<".", "g", "i", "f">>,
     <<".", "p", "d", "f">>, <<".", "d", "o", "c">>, <<".", "d", "o", "c", "x">>}

AllowedDeclaredTypes ==
    {<<"i", "m", "a", "g", "e", "/", "j", "p", "e", "g">>, <<"i", "m", "a", "g", "e", "/", "p", "n", "g">>, <<"i", "m", "a", "g", "e", "/", "g", "i", "f">>,
     MimePdf,
     <<"a", "p", "p", "l", "i", "c", "a", "t", "i", "o", "n", "/",
         "m", "s", "w", "o", "r", "d">>,
     <<"a", "p", "p", "l", "i", "c", "a", "t", "i", "o", "n", "/",
         "v", "n", "d", ".", "o", "p", "e", "n", "x", "m", "l", "f",
         "o", "r", "m", "a", "t", "s", "-", "o", "f", "f", "i", "c",
         "e", "d", "o", "c", "u", "m", "e", "n", "t", ".", "w", "o",
         "r", "d", "p", "r", "o", "c", "e", "s", "s", "i", "n", "g",
         "m", "l", ".", "d", "o", "c", "u", "m", "e", "n", "t">>}

\* C14: a file deposit is passed on to the storage collaborator only if both
\* its declared MIME type and its extension belong to the allowed set
\* (jpeg/jpg, png, gif, pdf, doc, docx): the upload is never called for a
\* file of another MIME type or extension.
C14_OnlyAllowedTypesUploaded ==
    \A n \in DOMAIN uploads :
        LET file == deps[uploads[n].dep].file IN
        /\ ToLowerCase(ExtName(file.originalname)) \in AllowedExtensions
        /\ ToLowerCase(file.mimetype) \in AllowedDeclaredTypes

\* C15: in every reachable state the sender of every message in a
\* classroom's persisted message sequence is a member of that classroom: its
\* teacher or one of its students.
C15_SenderIsMember ==
    \A c \in DOMAIN store :
        \A n \in DOMAIN store[c].messages :
            store[c].messages[n].sender \in Members(c)

\* C16: in every reachable state the uploader of every file entry in a
\* classroom's file sequence is a member of that classroom.
C16_UploaderIsMember ==
    \A c \in DOMAIN store :
        \A n \in DOMAIN store[c].files :
            store[c].files[n].uploader \in Members(c)

\* C17: within one classroom the timestamps of the persisted message
\* sequence are non-decreasing in sequence order, for every interleaving of
\* concurrent submissions.
C17_TimestampsNonDecreasing ==
    \A c \in DOMAIN store :
        \A n \in 1..(Len(store[c].messages) - 1) :
            store[c].messages[n].timestamp <= store[c].messages[n + 1].timestamp

\* s is an initial part of t
IsPrefix(s, t) == Len(s) <= Len(t) /\ SubSeq(t, 1, Len(s)) = s

\* the sequences of classroom c in the store st; none when c is not stored
MessagesOf(st, c) == IF c \in DOMAIN st THEN st[c].messages ELSE << >>

FilesOf(st, c) == IF c \in DOMAIN st THEN st[c].files ELSE << >>

\* C18: the message sequence and the file sequence of a classroom are
\* append-only: every step leaves the persisted entries of both sequences in
\* place and unchanged, and adds new entries at the end only.
C18_AppendOnly ==
    [][\A c \in DOMAIN store :
          /\ IsPrefix(store[c].messages, MessagesOf(store', c))
          /\ IsPrefix(store[c].files, FilesOf(store', c))]_vars

\* C19: in every reachable state, also after concurrent creation requests
\* that passed the check of the code together, no two classrooms have the
\* same join code, and every classroom has one teacher, who for a created
\* classroom is the session user of the request that created it.
C19_UniqueCodeOneTeacher ==
    /\ \A c, d \in DOMAIN store :
          c # d => store[c].classCode # store[d].classCode
    /\ \A c \in DOMAIN store :
          /\ store[c].teacher \in Users
          /\ \A i \in DOMAIN creates :
                c = NewIds[i] => store[c].teacher = creates[i].user

\* C20: no realtime event is fatal to the process: whatever payload an
\* authenticated client sends with chatMessage, the handler ends without an
\* uncaught error or an unhandled rejection.
C20_NoUnhandledRejection ==
    \A i \in DOMAIN subs : subs[i].pc # "unhandledRejection"

\* C21: on the HTTP message path an error response (404 or 500) never
\* accompanies a persisted message: a request that was answered with an
\* error has no message of its own in any stored classroom.
C21_ErrorMeansNotPersisted ==
    \A i \in DOMAIN posts :
        posts[i].status \in {404, 500} => ~Persisted(PostId(i))

\* C22: a closed connection is in no room although it never asked to leave;
\* no step delivers anything to it (an event emitted after the disconnect
\* does not reach it), and a broadcast made while it is closed still
\* reaches every other connection that is in the addressed room.
C22_ClosedConnectionLeavesRooms ==
    [][\A k \in Conns :
          status[k] = "closed"
          => /\ rooms[k] = {} /\ rooms'[k] = {}
             /\ received'[k] = received[k]
             /\ \A i \in DOMAIN subs :
                   (subs[i].pc = "save" /\ subs'[i].pc = "emitted")
                   => \A j \in Conns \ {k} :
                         subs[i].classroomId \in rooms[j]
                         => received'[j] =
                                Append(received[j], MessageEvent(subs[i], i))]_vars

\* a connection that had received a message of a room is closed, and a later
\* message to the same room reached the other connection but not it
C22_Witness ==
    \E k \in Conns : \E i \in DOMAIN subs : \E e \in Events(k) :
        /\ status[k] = "closed"
        /\ subs[i].pc = "emitted"
        /\ e.room = subs[i].classroomId
        /\ e.sub # i
        /\ \A f \in Events(k) : f.sub # i
        /\ \E j \in Conns \ {k} : \E f \in Events(j) : f.sub = i

\* the rooms connection k was logged joining
JoinedRooms(k) == {joins[k][n].room : n \in DOMAIN joins[k]}

\* C23: joinRoom is idempotent: after every step the rooms of an open
\* connection are exactly the rooms it asked to join, however often it
\* asked for each; a broadcast to a room it has joined, once or repeatedly,
\* adds exactly one event to what it has received, and it has received no
\* submission's event twice.
C23_JoinRoomIdempotent ==
    [][\A k \in Conns :
          /\ status'[k] = "open" => rooms'[k] = JoinedRooms(k)'
          /\ \A i \in DOMAIN subs :
                (/\ subs[i].pc = "save" /\ subs'[i].pc = "emitted"
                 /\ status[k] = "open"
                 /\ subs[i].classroomId \in JoinedRooms(k))
                => received'[k] =
                       Append(received[k], MessageEvent(subs[i], i))
          /\ \A m, n \in DOMAIN received'[k] :
                received'[k][m].sub = received'[k][n].sub => m = n]_vars

\* a connection joined the same room twice and has then received exactly
\* one event, that of a submission to this room
C23_Witness ==
    \E k \in Conns :
        /\ Len(joins[k]) = 2
        /\ joins[k][1].room = joins[k][2].room
        /\ joins[k][2].seen = 0
        /\ Len(received[k]) = 1
        /\ received[k][1].room = joins[k][2].room

\* C24: joinRoom checks neither membership nor existence: after every step
\* an open connection is in every room it asked to join, whoever its user
\* is and whether or not a classroom of that id is stored, and a broadcast
\* to a room it asked to join is delivered to it.
C24_JoinRoomUnchecked ==
    [][\A k \in Conns : \A n \in DOMAIN joins'[k] :
          status'[k] = "open"
          => /\ joins'[k][n].room \in rooms'[k]
             /\ \A i \in DOMAIN subs :
                   (/\ subs[i].pc = "save" /\ subs'[i].pc = "emitted"
                    /\ n \in DOMAIN joins[k]
                    /\ subs[i].classroomId = joins[k][n].room)
                   => /\ Len(received'[k]) = Len(received[k]) + 1
                      /\ received'[k][Len(received'[k])].sub = i]_vars

\* a connection whose user is no member of classroom c2 is in room c2 and
\* has received a message broadcast to it
C24_Witness ==
    \E k \in Conns :
        /\ status[k] = "open"
        /\ "c2" \in DOMAIN store
        /\ socket[k].userId \notin Members("c2")
        /\ "c2" \in rooms[k]
        /\ \E e \in Events(k) : e.room = "c2"

\* a connection is in the room of an id for which no classroom is stored
C24_WitnessNoClassroom ==
    \E k \in Conns : \E c \in rooms[k] : c \notin DOMAIN store

\* C25: a file deposit emits no realtime event: no step of a deposit, from
\* its arrival to its answer, successful or not, changes what any
\* connection has received, and every event a connection has received is
\* the event of a chat submission.
C25_DepositEmitsNothing ==
    [][/\ (deps' # deps \/ uploads' # uploads) => received' = received
       /\ \A k \in Conns : \A n \in DOMAIN received'[k] :
             /\ received'[k][n].sub \in DOMAIN subs'
             /\ subs'[received'[k][n].sub].pc = "emitted"]_vars

\* a deposit into c1 was saved and another was refused or failed while a
\* connection that has received a chat message was in the room of c1
C25_Witness ==
    /\ "c1" \in rooms["k1"]
    /\ received["k1"] # << >>
    /\ \E i \in DOMAIN deps :
          /\ deps[i].pc = "done"
          /\ \E n \in DOMAIN store["c1"].files : store["c1"].files[n].dep = i

\* a deposit into c1 has failed while a connection was in the room of c1
C25_WitnessFailure ==
    /\ "c1" \in rooms["k1"]
    /\ \E i \in DOMAIN deps :
          /\ deps[i].pc = "done"
          /\ deps[i].res.kind = "redirect"
          /\ deps[i].res.error # Absent

\* C26: every 'message' event a connection has received for a chatMessage
\* carries the id and the display name of the sender's connection, and its
\* sender, content, type and timestamp are those of the message stored for
\* the same submission.
C26_EventAgreesWithStored ==
    \A k \in Conns : \A e \in Events(k) :
        /\ e.sub \in DOMAIN subs
        /\ Truthy(e.senderId) /\ Truthy(e.senderUsername)
        /\ e.senderId = socket[subs[e.sub].conn].userId
        /\ e.senderUsername = Username(e.senderId)
        /\ PersistedIn(e.room, e.sub)
        /\ LET m == store[e.room].messages[StoredAt(e.room, e.sub)]
           IN /\ m.sender = e.senderId
              /\ m.content = e.content
              /\ m.type = e.type
              /\ m.timestamp = e.timestamp

\* a math message and a message without content have been broadcast and are
\* stored
C26_Witness ==
    \E k \in Conns : \E e, f \in Events(k) :
        /\ e.type = "math" /\ e.content = "x^2" /\ e.timestamp > 0
        /\ f.content = Absent
        /\ PersistedIn(e.room, e.sub) /\ PersistedIn(f.room, f.sub)

\* C27: a chatMessage whose payload has no type is stored with type text,
\* and every event broadcast for it has type text.
C27_OmittedTypeIsText ==
    \A i \in DOMAIN subs :
        subs[i].type = Absent
        => /\ \A c \in DOMAIN store : \A n \in DOMAIN store[c].messages :
                 store[c].messages[n].sub = i
                 => store[c].messages[n].type = "text"
           /\ \A k \in Conns : \A e \in Events(k) :
                 e.sub = i => e.type = "text"
           /\ subs[i].pc = "emitted" => Persisted(i)

\* a submission without type is stored and has been delivered
C27_Witness ==
    \E i \in DOMAIN subs :
        /\ subs[i].type = Absent
        /\ subs[i].pc = "emitted"
        /\ Persisted(i)
        /\ Delivered(i)

\* C28: every stored file entry is that of one saved deposit and keeps the
\* original file name, the size, the declared MIME type, the session user
\* as uploader, the requested category, the locator the handler kept and
\* the public id the storage provider returned.
C28_StoredEntryKeepsAllFields ==
    \A c \in DOMAIN store : \A n \in DOMAIN store[c].files :
        LET f == store[c].files[n]
            d == deps[f.dep]
        IN /\ d.pc = "done" /\ d.classId = c
           /\ \A m \in DOMAIN store[c].files :
                 store[c].files[m].dep = f.dep => m = n
           /\ f.fileName = d.file.originalname
           /\ f.fileSize = d.file.size
           /\ f.fileMimeType = d.file.mimetype
           /\ f.uploader = d.user
           /\ f.category = d.category
           /\ f.filePath = d.newFile.filePath
           /\ "publicId" \in DOMAIN f

\* submissions i and j went to the same classroom, both loaded the same
\* document (neither saw the other's message) and both saves succeeded
Raced(i, j) ==
    /\ i # j
    /\ subs[i].classroomId = subs[j].classroomId
    /\ subs[i].pc = "emitted" /\ subs[j].pc = "emitted"
    /\ subs[i].loaded = subs[j].loaded

C29_ChatAndDepositBothKept ==
    /\ \A i \in DOMAIN subs : subs[i].pc = "emitted" => Persisted(i)
    /\ \A d \in DOMAIN deps :
          (deps[d].pc = "done" /\ deps[d].res.message = "success")
          => \E n \in DOMAIN store[deps[d].classId].files :
                store[deps[d].classId].files[n].dep = d

\* a chat message and a deposit were both in flight with the document
\* loaded, and both are stored
C29_WitnessChatAndDeposit ==
    /\ \E i \in DOMAIN subs : subs[i].pc = "emitted" /\ subs[i].loaded = 0
    /\ store["c1"].messages # << >>
    /\ store["c1"].files # << >>

\* the identity of the session user u, as the connection event captures it
Identity(u) ==
    [userId |-> u, username |-> Username(u), userRole |-> Role(u),
     handlers |-> TRUE]

\* C30: once the connection event has run, the identity of a connection
\* with a session user is that user's id, name and role and no step changes
\* it; the sender of every stored message and the sender id and name of
\* every event are the identity of the connection the submission came
\* from, whatever sender the payload named.
C30_IdentityCapturedOnce ==
    [][\A k \in Conns :
          /\ status[k] # "new" => socket'[k] = socket[k]
          /\ status'[k] = "open" => socket'[k] = Identity(session'[k])
          /\ \A i \in DOMAIN subs' :
                subs'[i].conn = k
                => /\ \A c \in DOMAIN store' :
                         \A n \in DOMAIN store'[c].messages :
                            store'[c].messages[n].sub = i
                            => store'[c].messages[n].sender = session'[k]
                   /\ \A j \in Conns : \A n \in DOMAIN received'[j] :
                         received'[j][n].sub = i
                         => /\ received'[j][n].senderId = socket'[k].userId
                            /\ received'[j][n].senderUsername
                                  = Username(session'[k])]_vars

\* a message sent on the connection of user u1, for which the payloads name
\* u2 or u1 or nobody as sender, is stored with sender u1 and was delivered
\* to the other connection with u1 as sender
C30_Witness ==
    \E k, j \in Conns : \E e \in Events(j) :
        /\ k # j
        /\ subs[e.sub].conn = k
        /\ e.senderId = session[k]
        /\ session[k] = "u1"
        /\ PersistedIn("c1", e.sub)
        /\ store["c1"].messages[StoredAt("c1", e.sub)].sender = "u1"

\* C31: a deposit addressed to a classroom that is not stored causes no
\* call of the storage collaborator's upload and no stored file: every
\* upload call belongs to a deposit whose classroom is stored.
C31_NoUploadForMissingClassroom ==
    /\ \A n \in DOMAIN uploads :
          deps[uploads[n].dep].classId \in DOMAIN store
    /\ \A c \in DOMAIN store : \A n \in DOMAIN store[c].files :
          deps[store[c].files[n].dep].classId = c

\* C32: a stored message has a non-empty attachment URL exactly when its
\* type is image or file, and the stored URL is the URL of every event
\* broadcast for the same submission.
C32_StoredUrlMatchesTypeAndEvent ==
    \A c \in DOMAIN store : \A n \in DOMAIN store[c].messages :
        LET m == store[c].messages[n]
        IN /\ Truthy(m.imageUrl) <=> m.type \in {"image", "file"}
           /\ \A k \in Conns : \A e \in Events(k) :
                 e.sub = m.sub => e.fileUrl = m.imageUrl

\* C33: every upload call is made with resource type image when the MIME
\* type of the deposit is an image type and with raw otherwise, and a raw
\* upload asks for a public id that ends with the base name of the original
\* file name, the uniqueness token and the (lower-cased) extension.
C33_UploadClassification ==
    \A n \in DOMAIN uploads :
        LET u == uploads[n]
            f == deps[u.dep].file
        IN /\ u.resource_type =
                 IF StartsWith(f.mimetype, <<"i", "m", "a", "g", "e", "/">>)
                 THEN "image" ELSE "raw"
           /\ u.resource_type = "raw"
              => EndsWith(u.public_id,
                          BaseName(f.originalname) \o <<"_", "t">>
                             \o ToLowerCase(ExtName(f.originalname)))

\* C34: a chatMessage needs no joinRoom: when the save of a submission
\* succeeds while its connection is not in the addressed room, the message
\* is appended to the classroom, every connection in the room receives the
\* event, and the sending connection receives nothing.
C34_SenderNeedNotJoin ==
    [][\A i \in DOMAIN subs :
          LET k == subs[i].conn
              c == subs[i].classroomId
          IN (/\ subs[i].pc = "save" /\ subs'[i].pc = "emitted"
              /\ c \notin rooms[k])
             => /\ store'[c].messages =
                      Append(store[c].messages, MessageCast(NewMessage(subs[i], i)))
                /\ received'[k] = received[k]
                /\ \A j \in Conns :
                      c \in rooms[j]
                      => received'[j] =
                             Append(received[j], MessageEvent(subs[i], i))]_vars

\* an open connection that is in no room and has received nothing sent a
\* message that is stored and was delivered to the other connection
C34_Witness ==
    \E i \in DOMAIN subs : \E j \in Conns :
        LET k == subs[i].conn
        IN /\ j # k
           /\ status[k] = "open" /\ rooms[k] = {} /\ received[k] = << >>
           /\ subs[i].pc = "emitted"
           /\ PersistedIn(subs[i].classroomId, i)
           /\ \E e \in Events(j) : e.sub = i

\* the stored messages of submission i, as (classroom, position) pairs
StoredEntries(i) ==
    {cn \in UNION {{<<c, n>> : n \in DOMAIN store[c].messages} :
                      c \in DOMAIN store} :
        store[cn[1]].messages[cn[2]].sub = i}

\* the positions of the events of submission i in what connection k received
ReceivedEvents(k, i) == {n \in DOMAIN received[k] : received[k][n].sub = i}

\* C35: a submission has at most one stored message and has reached each
\* connection at most once; a submission whose save succeeded has exactly
\* one stored message, and one whose save did not succeed has none and has
\* reached no connection.
C35_AtMostOnce ==
    \A i \in DOMAIN subs :
        /\ Cardinality(StoredEntries(i)) <= 1
        /\ \A k \in Conns : Cardinality(ReceivedEvents(k, i)) <= 1
        /\ subs[i].pc = "emitted" => Cardinality(StoredEntries(i)) = 1
        /\ subs[i].pc # "emitted"
           => /\ StoredEntries(i) = {}
              /\ \A k \in Conns : ReceivedEvents(k, i) = {}

\* one submission was saved and delivered once, another was dropped
C35_Witness ==
    \E i, j \in DOMAIN subs : \E k \in Conns :
        /\ subs[i].pc = "emitted"
        /\ Cardinality(StoredEntries(i)) = 1
        /\ Cardinality(ReceivedEvents(k, i)) = 1
        /\ subs[j].pc = "dropped"

\* submission i has reached its final outcome
Final(i) == i \in DOMAIN subs /\ subs[i].pc \in {"emitted", "dropped"}

\* C36: when the store answers every load and save, every chatMessage the
\* handler received eventually is either broadcast or dropped, and at all
\* times a submission whose message is stored has been broadcast to the
\* connections in its room (the emit follows the save without suspension).
C36_EverySubmissionSettles ==
    /\ \A i \in 1..MaxSubs : (i \in DOMAIN subs) ~> Final(i)
    /\ [](\A i \in DOMAIN subs : Persisted(i) => subs[i].pc = "emitted")

\* one submission was broadcast and delivered, another was dropped
C36_Witness ==
    \E i, j \in DOMAIN subs :
        /\ subs[i].pc = "emitted" /\ Delivered(i)
        /\ subs[j].pc = "dropped"

\* C36 with every payload a client can send: when the store answers every
\* load and save, every chatMessage the handler received eventually is
\* broadcast or dropped, a handler that threw on its payload counting as
\* dropped.
C36_SettlesWithAnyPayload ==
    \A i \in 1..MaxSubs :
        (i \in DOMAIN subs)
        ~> (Final(i) \/ (i \in DOMAIN subs /\ subs[i].pc = "unhandledRejection"))

\* C37: only a teacher's request creates a classroom.  No step changes or
\* removes a stored classroom; a step adds at most one, and the one it adds
\* is the classroom of a request in its save, made by a teacher, with a
\* join code no stored classroom has, with that teacher and with empty
\* student, message and file sequences.  A request of a user who is no
\* teacher ends at once and has no classroom, and neither has a request
\* that was answered with "code exists".
C37_OnlyTeachersCreate ==
    [][/\ \A c \in DOMAIN store : c \in DOMAIN store' /\ store'[c] = store[c]
       /\ Cardinality(DOMAIN store' \ DOMAIN store) <= 1
       /\ \A c \in DOMAIN store' \ DOMAIN store :
             \E i \in DOMAIN creates :
                /\ c = NewIds[i]
                /\ creates[i].pc = "save"
                /\ Role(creates[i].user) = "teacher"
                /\ ~CodeStored(creates[i].classCode)
                /\ store'[c] = [classCode |-> creates[i].classCode,
                                teacher |-> creates[i].user,
                                students |-> << >>, messages |-> << >>,
                                files |-> << >>]
       /\ \A i \in DOMAIN creates' :
             /\ Role(creates'[i].user) # "teacher"
                => /\ creates'[i].pc = "done"
                   /\ creates'[i].res \in {"refused", "forbidden"}
                   /\ NewIds[i] \notin DOMAIN store'
             /\ creates'[i].res = "code exists"
                => NewIds[i] \notin DOMAIN store']_vars

\* a student's request was refused, and a teacher's request has created a
\* classroom
C37_Witness ==
    \E i, j \in DOMAIN creates :
        /\ creates[i].user = "u2" /\ creates[i].res = "forbidden"
        /\ creates[j].res = "created"
        /\ NewIds[j] \in DOMAIN store
        /\ store[NewIds[j]].teacher = creates[j].user

\* a request with a join code in use was answered with "code exists"
C37_WitnessCodeExists ==
    \E i \in DOMAIN creates :
        creates[i].res = "code exists" /\ CodeStored(creates[i].classCode)

=============================================================================
